---------------------------- MODULE Spec2Model ----------------------------
(***************************************************************************)
(* State-machine model of the case-preparation pipeline:                   *)
(*   main.py            case_prep (the /case-prep handler)                 *)
(*   query_refiner.py   refine_query                                       *)
(*   vector_search.py   _build_metadata_filter_from_query, _score_matches, *)
(*                      get_case_snippets                                  *)
(*   gpt_refiner.py     _prepare_snippets, _filter_irrelevant_snippets,    *)
(*                      _reformat_snippets, refine_case_snippets           *)
(*   anatomy_gpt.py     select_approaches, run_pipeline                    *)
(*                                                                         *)
(* Strings.  Two representations are used, one per kind of text:           *)
(*  - query text (the prompt, the refined query, model-written questions   *)
(*    and facts) is a sequence of atoms; an atom is a blank " ", a comma   *)
(*    ",", a punctuation mark or a whole word;                             *)
(*  - snippet text (vector-store metadata) is a run-length encoded         *)
(*    character string, a sequence of runs [c, n], so that the character   *)
(*    limits of the code (10, 800, 8000) are reachable.                    *)
(* Python's None is the empty sequence <<>> of an optional value, and a    *)
(* present value v is <<v>>.                                               *)
(***************************************************************************)
EXTENDS Integers, Sequences, FiniteSets, TLC

VARIABLES
    pc,         \* position of the case_prep coroutine
    hashseed,   \* the process's string-hash seed (orders list(set))
    prompt,     \* request.prompt as received
    refined,    \* refined_prompt
    index,      \* the store's ranked matches for the request's vector
    retrieval,  \* outcome record of get_case_snippets
    caseprep,   \* the case-prep branch (refine_case_snippets in a worker)
    anatomy,    \* the anatomy branch (run_pipeline in a worker)
    calls,      \* external calls issued for this request, by kind
    response,   \* what the handler gave back to the caller
    rankcache,  \* RankCache: the process-wide score cache of ImportanceRanker
    rankreq,    \* in-flight calls of ImportanceRanker.rank, one per caller
    unit        \* a single function called on its own: [op, in, out]

rankvars == <<rankcache, rankreq>>

pipevars == <<pc, prompt, refined, index, retrieval, caseprep, anatomy, calls, response>>

vars == <<pc, hashseed, prompt, refined, index, retrieval, caseprep, anatomy,
          calls, response, rankcache, rankreq, unit>>

---------------------------------------------------------------------------
(* Bounds of the model *)

MaxIndex == 2

\* how far past the item count a returned score vector may run
MaxSurplus == 1

\* the longest refined query tried on the filter builder, in words and separators
MaxQueryLen == 4

\* the longest snippet list handed to _prepare_snippets on its own
MaxSnips == 3

\* the longest list of question objects in one reply
MaxPairs == 3

\* the most distinct facts in one reply
MaxFacts == 22

\* the longest question, in words, blanks and punctuation marks
MaxQuestionLen == 4

---------------------------------------------------------------------------
(* Generic helpers *)

None == <<>>

Some(v) == <<v>>

Take(s, k) == SubSeq(s, 1, IF k < Len(s) THEN k ELSE Len(s))

Range(s) == {s[i] : i \in DOMAIN s}

RECURSIVE SeqsUpTo(_, _)
SeqsUpTo(S, n) ==
    IF n = 0 THEN {<<>>}
    ELSE LET shorter == SeqsUpTo(S, n - 1)
         IN  shorter \cup {Append(s, x) : s \in {t \in shorter : Len(t) = n - 1}, x \in S}

---------------------------------------------------------------------------
(* Snippet text: run-length encoded character strings *)

Run(c, n) == [c |-> c, n |-> n]

IsSpaceChar(c) == c \in {" ", "\n", "\t"}

RECURSIVE Canon(_)
Canon(s) ==
    IF s = <<>> THEN <<>>
    ELSE IF s[1].n = 0 THEN Canon(Tail(s))
    ELSE LET rest == Canon(Tail(s))
         IN  IF rest # <<>> /\ rest[1].c = s[1].c
             THEN <<Run(s[1].c, s[1].n + rest[1].n)>> \o Tail(rest)
             ELSE <<s[1]>> \o rest

RECURSIVE TLen(_)
TLen(s) == IF s = <<>> THEN 0 ELSE s[1].n + TLen(Tail(s))

\* s[:k]
RECURSIVE TTake(_, _)
TTake(s, k) ==
    IF s = <<>> \/ k <= 0 THEN <<>>
    ELSE IF s[1].n >= k THEN <<Run(s[1].c, k)>>
    ELSE <<s[1]>> \o TTake(Tail(s), k - s[1].n)

RECURSIVE TLStrip(_)
TLStrip(s) ==
    IF s # <<>> /\ IsSpaceChar(s[1].c) THEN TLStrip(Tail(s)) ELSE s

RECURSIVE TRStrip(_)
TRStrip(s) ==
    IF s # <<>> /\ IsSpaceChar(s[Len(s)].c) THEN TRStrip(SubSeq(s, 1, Len(s) - 1)) ELSE s

\* str.strip()
TStrip(s) == TRStrip(TLStrip(s))

\* str.replace("\n", " ")
TReplaceNewline(s) ==
    Canon([i \in DOMAIN s |-> IF s[i].c = "\n" THEN Run(" ", s[i].n) ELSE s[i]])

LowerChar(c) == IF c = "A" THEN "a" ELSE IF c = "B" THEN "b" ELSE c

\* str.lower()
TLower(s) == Canon([i \in DOMAIN s |-> Run(LowerChar(s[i].c), s[i].n)])

\* str.split(" "): every single blank separates, so k blanks in a row give
\* k - 1 empty tokens
RECURSIVE EmptyTokens(_)
EmptyTokens(k) == IF k <= 0 THEN <<>> ELSE <<<<>>>> \o EmptyTokens(k - 1)

RECURSIVE TSplitFrom(_, _, _)
TSplitFrom(s, cur, acc) ==
    IF s = <<>> THEN Append(acc, cur)
    ELSE IF s[1].c = " "
         THEN TSplitFrom(Tail(s), <<>>, Append(acc, cur) \o EmptyTokens(s[1].n - 1))
         ELSE TSplitFrom(Tail(s), Append(cur, s[1]), acc)

TSplitBlank(s) == TSplitFrom(s, <<>>, <<>>)

\* " ".join(tokens)
RECURSIVE TJoinBlank(_)
TJoinBlank(tokens) ==
    IF tokens = <<>> THEN <<>>
    ELSE IF Len(tokens) = 1 THEN tokens[1]
    ELSE Canon(tokens[1] \o <<Run(" ", 1)>> \o TJoinBlank(Tail(tokens)))

\* a literal, one run per character
Lit(chars) == Canon([i \in DOMAIN chars |-> Run(chars[i], 1)])

---------------------------------------------------------------------------
(* Query text: sequences of atoms *)

IsBlank(a) == a \in {" ", "\n"}

RECURSIVE QLStrip(_)
QLStrip(s) == IF s # <<>> /\ IsBlank(s[1]) THEN QLStrip(Tail(s)) ELSE s

RECURSIVE QRStrip(_)
QRStrip(s) ==
    IF s # <<>> /\ IsBlank(s[Len(s)]) THEN QRStrip(SubSeq(s, 1, Len(s) - 1)) ELSE s

\* str.strip()
QStrip(s) == QRStrip(QLStrip(s))

LowerAtom(a) ==
    CASE a = "Trauma" -> "trauma"
      [] a = "Sports" -> "sports"
      [] a = "Knee"   -> "knee"
      [] a = "Hip"    -> "hip"
      [] a = "What"   -> "what"
      [] a = "Sciatic" -> "sciatic"
      [] a = "Blood"  -> "blood"
      [] a = "AVN"    -> "avn"
      [] a = "Fact"   -> "fact"
      [] OTHER        -> a

\* str.lower()
QLower(s) == [i \in DOMAIN s |-> LowerAtom(s[i])]

\* str.split(",")
RECURSIVE QSplitFrom(_, _, _)
QSplitFrom(s, cur, acc) ==
    IF s = <<>> THEN Append(acc, cur)
    ELSE IF s[1] = ","
         THEN QSplitFrom(Tail(s), <<>>, Append(acc, cur))
         ELSE QSplitFrom(Tail(s), Append(cur, s[1]), acc)

QSplitComma(s) == QSplitFrom(s, <<>>, <<>>)

---------------------------------------------------------------------------
(* vector_search.py: program constants *)

TOP_K == 100

\* MIN_SCORE = 0.52; scores are held in hundredths
MIN_SCORE == 52

\* clean_items[:500]
SNIPPET_CAP == 500

\* .split(" ")[:8]
SIG_TOKENS == 8

---------------------------------------------------------------------------
(* vector_search.py: _build_metadata_filter_from_query *)

specialty_map ==
    { <<<<"recon">>, "recon">>,
      <<<<"adult", " ", "reconstruction">>, "recon">>,
      <<<<"arthroplasty">>, "recon">>,
      <<<<"trauma">>, "trauma">>,
      <<<<"sports">>, "sports">>,
      <<<<"foot", " ", "&", " ", "ankle">>, "footankle">>,
      <<<<"foot", " ", "and", " ", "ankle">>, "footankle">>,
      <<<<"footankle">>, "footankle">>,
      <<<<"hand">>, "hand">>,
      <<<<"peds">>, "peds">>,
      <<<<"pediatrics">>, "peds">>,
      <<<<"spine">>, "spine">>,
      <<<<"shoulder">>, "shoulderelbow">>,
      <<<<"shoulder/elbow">>, "shoulderelbow">>,
      <<<<"shoulderelbow">>, "shoulderelbow">>,
      <<<<"onc">>, "onc">> }

region_map ==
    { <<<<"knee">>, <<"knee", "lowerextremity::knee", "lowerextremity",
                      "lowerextremity::lowerextremityknee">> >>,
      <<<<"hip">>, <<"hip", "lowerextremity::hip", "pelvis">> >>,
      <<<<"ankle">>, <<"ankle", "footankle", "lowerextremity::lowerextremityankle">> >>,
      <<<<"foot">>, <<"foot", "footankle", "forefoot", "midfoot">> >>,
      <<<<"footankle">>, <<"footankle", "ankle", "foot",
                           "lowerextremity::lowerextremityankle">> >>,
      <<<<"pelvis">>, <<"pelvis", "acetabulum">> >>,
      <<<<"patella">>, <<"patella">> >>,
      <<<<"elbow">>, <<"elbow">> >>,
      <<<<"shoulder">>, <<"shoulder", "shouldergirdle", "shoulderelbow">> >>,
      <<<<"spine">>, <<"spine", "thoracic spine", "lumbar spine", "cervical spine">> >> }

\* every value either map can put into a filter, in one fixed enumeration
StoredValues ==
    <<"recon", "trauma", "sports", "footankle", "hand", "peds", "spine",
      "shoulderelbow", "onc", "knee", "lowerextremity::knee", "lowerextremity",
      "lowerextremity::lowerextremityknee", "hip", "lowerextremity::hip", "pelvis",
      "ankle", "lowerextremity::lowerextremityankle", "foot", "forefoot", "midfoot",
      "acetabulum", "patella", "elbow", "shoulder", "shouldergirdle",
      "thoracic spine", "lumbar spine", "cervical spine">>

ValuePos(v) == CHOOSE i \in DOMAIN StoredValues : StoredValues[i] = v

RECURSIVE SortByPos(_, _)
SortByPos(S, up) ==
    IF S = {} THEN <<>>
    ELSE LET m == CHOOSE x \in S : \A y \in S :
                      IF up THEN ValuePos(x) <= ValuePos(y) ELSE ValuePos(x) >= ValuePos(y)
         IN  <<m>> \o SortByPos(S \ {m}, up)

\* list(a_set): the iteration order of a set of strings is fixed by the
\* process's hash seed, not by the program
ListOfSet(S) == SortByPos(S, hashseed = 0)

\* tokens = [t.strip().lower() for t in refined_query.split(",") if t.strip()]
QueryTokens(refined_query) ==
    LET parts == QSplitComma(refined_query)
        kept  == SelectSeq(parts, LAMBDA t : QStrip(t) # <<>>)
    IN  [i \in DOMAIN kept |-> QLower(QStrip(kept[i]))]

SelectedSpecialties(tokens) ==
    {p[2] : p \in {q \in specialty_map : q[1] \in Range(tokens)}}

SelectedRegions(tokens) ==
    UNION {Range(p[2]) : p \in {q \in region_map : q[1] \in Range(tokens)}}

\* Faulty variant: a single value is wrapped in $in as well.
ClauseAlwaysIn(field, S) == [field |-> field, op |-> "$in", vals |-> ListOfSet(S)]

Clause(field, S) ==
    IF Cardinality(S) = 1
    THEN [field |-> field, op |-> "$eq", vals |-> <<CHOOSE v \in S : TRUE>>]
    ELSE [field |-> field, op |-> "$in", vals |-> ListOfSet(S)]

\* Faulty variant: one token outside both maps voids the whole filter.
_build_metadata_filter_all_known(refined_query) ==
    LET tokens == QueryTokens(refined_query)
        known(t) == \E p \in specialty_map \cup region_map : p[1] = t
        selected_specialties == SelectedSpecialties(tokens)
        selected_regions == SelectedRegions(tokens)
        clauses ==
            (IF selected_specialties # {}
             THEN <<Clause("specialty", selected_specialties)>> ELSE <<>>)
            \o
            (IF selected_regions # {}
             THEN <<Clause("region", selected_regions)>> ELSE <<>>)
    IN  IF tokens = <<>> \/ \E i \in DOMAIN tokens : ~known(tokens[i]) THEN None
        ELSE IF clauses = <<>> THEN None
        ELSE IF Len(clauses) = 1 THEN Some(clauses[1])
        ELSE Some([and |-> clauses])

\* The filter is None (<<>>), one clause <<c>>, or {"$and": [c1, c2]},
\* held as [and |-> <<c1, c2>>]
_build_metadata_filter_from_query(refined_query) ==
    LET tokens == QueryTokens(refined_query)
        selected_specialties == SelectedSpecialties(tokens)
        selected_regions == SelectedRegions(tokens)
        clauses ==
            (IF selected_specialties # {}
             THEN <<Clause("specialty", selected_specialties)>> ELSE <<>>)
            \o
            (IF selected_regions # {}
             THEN <<Clause("region", selected_regions)>> ELSE <<>>)
    IN  IF tokens = <<>> THEN None
        ELSE IF clauses = <<>> THEN None
        ELSE IF Len(clauses) = 1 THEN Some(clauses[1])
        ELSE Some([and |-> clauses])

---------------------------------------------------------------------------
(* vector_search.py: the vector store, _score_matches, get_case_snippets *)

\* A match is [score, metadata]; a metadata field that the stored vector
\* lacks is None.
ClauseMatches(metadata, c) ==
    LET held == metadata[c.field]
    IN  /\ held # None
        /\ IF c.op = "$eq" THEN held[1] = c.vals[1] ELSE held[1] \in Range(c.vals)

FilterMatches(metadata, filt) ==
    IF filt = None THEN TRUE
    ELSE IF "and" \in DOMAIN filt[1]
         THEN \A i \in DOMAIN filt[1].and : ClauseMatches(metadata, filt[1].and[i])
         ELSE ClauseMatches(metadata, filt[1])

\* index.query(vector=vec, top_k=TOP_K, include_metadata=True[, filter=filt])
\* on a store whose matches for vec are "ranked", best first
index_query(ranked, filt) ==
    Take(SelectSeq(ranked, LAMBDA m : FilterMatches(m.metadata, filt)), TOP_K)

\* bool(m["metadata"].get("text"))
TextTruthy(metadata) == metadata.text # None /\ metadata.text[1] # <<>>

CleanText(metadata) == TStrip(TReplaceNewline(metadata.text[1]))

Signature(raw_text) == TJoinBlank(Take(TSplitBlank(TLower(raw_text)), SIG_TOKENS))

SnippetItem(m) ==
    [text      |-> CleanText(m.metadata),
     source    |-> m.metadata.source,
     specialty |-> m.metadata.specialty,
     region    |-> m.metadata.region,
     diagnosis |-> m.metadata.diagnosis,
     procedure |-> m.metadata.procedure,
     score     |-> m.score]

\* Faulty variant: a kept snippet is put in front of the earlier ones.
RECURSIVE ScoreLoopPrepending(_, _, _)
ScoreLoopPrepending(filtered, seen, clean_items) ==
    IF filtered = <<>> THEN clean_items
    ELSE LET m   == filtered[1]
             sig == Signature(CleanText(m.metadata))
         IN  IF sig \in seen
             THEN ScoreLoopPrepending(Tail(filtered), seen, clean_items)
             ELSE ScoreLoopPrepending(Tail(filtered), seen \cup {sig},
                                      <<SnippetItem(m)>> \o clean_items)

RECURSIVE ScoreLoop(_, _, _)
ScoreLoop(filtered, seen, clean_items) ==
    IF filtered = <<>> THEN clean_items
    ELSE LET m   == filtered[1]
             sig == Signature(CleanText(m.metadata))
         IN  IF sig \in seen
             THEN ScoreLoop(Tail(filtered), seen, clean_items)
             ELSE ScoreLoop(Tail(filtered), seen \cup {sig},
                            Append(clean_items, SnippetItem(m)))

_score_matches(matches) ==
    LET filtered == SelectSeq(matches,
                        LAMBDA m : m.score >= MIN_SCORE /\ TextTruthy(m.metadata))
    IN  Take(ScoreLoop(filtered, {}, <<>>), SNIPPET_CAP)

\* The outcome of one call: where an exception left the function
\* ("none": it returned), the value returned, and the external calls
\* issued on the way (queries: the filter of each index.query, in order).
Retrieved(raised_at, snippets, queries) ==
    [raised_at |-> raised_at, snippets |-> snippets, embeds |-> 1, queries |-> queries]

\* Faulty variant: the filtered result is returned even when it is empty.
get_case_snippets_no_fallback(refined_query, ranked, embed_ok, q1_ok, q2_ok) ==
    LET filter_obj == _build_metadata_filter_from_query(refined_query)
        first      == _score_matches(index_query(ranked, filter_obj))
    IN  IF ~embed_ok THEN Retrieved("embed", <<>>, <<>>)
        ELSE IF ~q1_ok THEN Retrieved("query1", <<>>, <<filter_obj>>)
        ELSE Retrieved("none", first, <<filter_obj>>)

\* Faulty variant: any empty result is retried, filter or not.
get_case_snippets_retry_any(refined_query, ranked, embed_ok, q1_ok, q2_ok) ==
    LET filter_obj == _build_metadata_filter_from_query(refined_query)
        first      == _score_matches(index_query(ranked, filter_obj))
    IN  IF ~embed_ok THEN Retrieved("embed", <<>>, <<>>)
        ELSE IF ~q1_ok THEN Retrieved("query1", <<>>, <<filter_obj>>)
        ELSE IF first = <<>>
             THEN IF ~q2_ok THEN Retrieved("query2", <<>>, <<filter_obj, None>>)
                  ELSE Retrieved("none", _score_matches(index_query(ranked, None)),
                                 <<filter_obj, None>>)
             ELSE Retrieved("none", first, <<filter_obj>>)

\* embed_ok, q1_ok, q2_ok: whether the embedding call, the first and the
\* second index.query return (TRUE) or raise (FALSE)
get_case_snippets(refined_query, ranked, embed_ok, q1_ok, q2_ok) ==
    LET filter_obj == _build_metadata_filter_from_query(refined_query)
        first      == _score_matches(index_query(ranked, filter_obj))
    IN  IF ~embed_ok THEN Retrieved("embed", <<>>, <<>>)
        ELSE IF ~q1_ok THEN Retrieved("query1", <<>>, <<filter_obj>>)
        ELSE IF filter_obj # None /\ first = <<>>
             THEN IF ~q2_ok THEN Retrieved("query2", <<>>, <<filter_obj, None>>)
                  ELSE Retrieved("none", _score_matches(index_query(ranked, None)),
                                 <<filter_obj, None>>)
             ELSE Retrieved("none", first, <<filter_obj>>)

---------------------------------------------------------------------------
(* query_refiner.py: refine_query *)

\* f"(x) Error: {str(e)}"
ErrorMarker(msg) == <<"(x)", " ", "Error:", " ">> \o msg

\* Faulty variant: the early return tests the prompt without trimming it.
refine_query_untrimmed(user_prompt, llm) ==
    IF user_prompt = <<>> THEN [value |-> <<>>, llm_calls |-> 0]
    ELSE IF "raise" \in DOMAIN llm
         THEN [value |-> ErrorMarker(llm.raise), llm_calls |-> 1]
    ELSE IF llm.content = None
         THEN [value |-> ErrorMarker(<<"NoneType", " ", "has", " ", "no", " ", "strip">>),
               llm_calls |-> 1]
    ELSE [value |-> QStrip(llm.content[1]), llm_calls |-> 1]

\* Faulty variant: the except branch swallows the error and returns "".
refine_query_silent(user_prompt, llm) ==
    IF QStrip(user_prompt) = <<>> THEN [value |-> <<>>, llm_calls |-> 0]
    ELSE IF "raise" \in DOMAIN llm
         THEN [value |-> <<>>, llm_calls |-> 1]
    ELSE IF llm.content = None
         THEN [value |-> ErrorMarker(<<"NoneType", " ", "has", " ", "no", " ", "strip">>),
               llm_calls |-> 1]
    ELSE [value |-> QStrip(llm.content[1]), llm_calls |-> 1]

\* llm is what client.chat.completions.create does: it raises with a
\* message, [raise |-> msg], or returns a message whose content is a string
\* or None, [content |-> optional text]
refine_query(user_prompt, llm) ==
    IF QStrip(user_prompt) = <<>> THEN [value |-> <<>>, llm_calls |-> 0]
    ELSE IF "raise" \in DOMAIN llm
         THEN [value |-> ErrorMarker(llm.raise), llm_calls |-> 1]
    ELSE IF llm.content = None
         THEN [value |-> ErrorMarker(<<"NoneType", " ", "has", " ", "no", " ", "strip">>),
               llm_calls |-> 1]
    ELSE [value |-> QStrip(llm.content[1]), llm_calls |-> 1]

---------------------------------------------------------------------------
(* gpt_refiner.py: tunables *)

SNIP_CHAR_BUDGET == 8000

PER_SNIP_LIMIT == 800

MAX_SNIPPETS_FOR_REFORMAT == 45

MAX_FACTS_OUT == 20

\* if len(s) < 10: continue
MIN_SNIP_LEN == 10

---------------------------------------------------------------------------
(* gpt_refiner.py: _strip_noise on snippet text *)

FirstWhere(s, from, Test(_)) ==
    LET I == {i \in from..Len(s) : Test(s[i])}
    IN  IF I = {} THEN 0 ELSE CHOOSE i \in I : \A j \in I : i <= j

Blank1 == <<Run(" ", 1)>>

\* re.sub(r"(3 backticks).*?(3 backticks)", " ", s, flags=re.S); the backtick
\* character is written "tick"
RECURSIVE StripFences(_)
StripFences(s) ==
    LET IsFence(r) == r.c = "tick" /\ r.n >= 3
        i == FirstWhere(s, 1, IsFence)
        j == IF i = 0 THEN 0 ELSE FirstWhere(s, i + 1, IsFence)
    IN  IF i = 0 THEN s
        ELSE IF s[i].n >= 6
             THEN SubSeq(s, 1, i - 1) \o Blank1
                  \o StripFences(Canon(<<Run("tick", s[i].n - 6)>> \o SubSeq(s, i + 1, Len(s))))
        ELSE IF j = 0 THEN s
        ELSE SubSeq(s, 1, i - 1) \o Blank1
             \o StripFences(Canon(<<Run("tick", s[j].n - 3)>> \o SubSeq(s, j + 1, Len(s))))

\* re.sub(r"<[^>]+>", " ", s)
RECURSIVE StripTags(_)
StripTags(s) ==
    LET IsOpen(r)  == r.c = "<"
        IsClose(r) == r.c = ">"
        i == FirstWhere(s, 1, IsOpen)
        j == IF i = 0 THEN 0 ELSE FirstWhere(s, i + 1, IsClose)
    IN  IF i = 0 \/ j = 0 THEN s
        ELSE IF s[i].n >= 2 \/ j > i + 1
             THEN SubSeq(s, 1, i - 1) \o Blank1
                  \o StripTags(Canon(<<Run(">", s[j].n - 1)>> \o SubSeq(s, j + 1, Len(s))))
        ELSE SubSeq(s, 1, i) \o StripTags(SubSeq(s, j, Len(s)))

IsBullet(c) == c \in {"-", "*", "bullet"}

\* re.sub(r"^[-*bullet]+\s*", "", s, flags=re.M): at_start says the previous
\* character is a newline (or there is none); mode is where the scan is in
\* a match: outside ("scan"), in its bullets, or in its trailing blanks
RECURSIVE StripBullets(_, _, _)
StripBullets(s, at_start, mode) ==
    IF s = <<>> THEN <<>>
    ELSE LET r == s[1]
         IN  IF IsBullet(r.c) /\ (mode = "bullets" \/ at_start)
             THEN StripBullets(Tail(s), FALSE, "bullets")
             ELSE IF IsSpaceChar(r.c) /\ mode # "scan"
             THEN StripBullets(Tail(s), r.c = "\n", "blanks")
             ELSE <<r>> \o StripBullets(Tail(s), r.c = "\n", "scan")

IsRule(c) == c \in {"_", ">", "#"}

RECURSIVE RuleSpan(_)
RuleSpan(s) == IF s # <<>> /\ IsRule(s[1].c) THEN 1 + RuleSpan(Tail(s)) ELSE 0

\* re.sub(r"[_>#]{2,}", " ", s)
RECURSIVE StripRules(_)
StripRules(s) ==
    IF s = <<>> THEN <<>>
    ELSE LET k == RuleSpan(s)
         IN  IF k = 0 THEN <<s[1]>> \o StripRules(Tail(s))
             ELSE IF TLen(SubSeq(s, 1, k)) >= 2
                  THEN Blank1 \o StripRules(SubSeq(s, k + 1, Len(s)))
                  ELSE SubSeq(s, 1, k) \o StripRules(SubSeq(s, k + 1, Len(s)))

\* re.sub(r"\s+", " ", s)
CollapseBlanks(s) ==
    LET spaced == Canon([i \in DOMAIN s |->
                     IF IsSpaceChar(s[i].c) THEN Run(" ", s[i].n) ELSE s[i]])
    IN  [i \in DOMAIN spaced |->
            IF spaced[i].c = " " THEN Run(" ", 1) ELSE spaced[i]]

_strip_noise(s) ==
    LET s1 == Canon(StripFences(Canon(s)))
        s2 == Canon(StripTags(s1))
        s3 == Canon(StripBullets(s2, TRUE, "scan"))
        s4 == Canon(StripRules(s3))
    IN  TStrip(CollapseBlanks(s4))

---------------------------------------------------------------------------
(* gpt_refiner.py: _prepare_snippets *)

SourceOpen == Lit(<<" ", "[", "S", "o", "u", "r", "c", "e", ":", " ">>)

SourceClose == Lit(<<"]">>)

\* the string a dict snippet is turned into before cleaning
SnippetString(raw) ==
    LET base == TStrip(raw.text)
        src  == IF raw.source = None THEN <<>> ELSE TStrip(raw.source[1])
    IN  IF src # <<>> THEN Canon(base \o SourceOpen \o src \o SourceClose) ELSE base

\* Faulty variant: a snippet over the budget is skipped and the loop goes on.
RECURSIVE PrepareLoopSkipping(_, _, _, _)
PrepareLoopSkipping(snips, char_budget, cleaned, total) ==
    IF snips = <<>> THEN cleaned
    ELSE LET noiseless == _strip_noise(SnippetString(snips[1]))
             s == TTake(noiseless, PER_SNIP_LIMIT)
             L == TLen(s) + 1
         IN  IF TLen(noiseless) < MIN_SNIP_LEN
             THEN PrepareLoopSkipping(Tail(snips), char_budget, cleaned, total)
             ELSE IF cleaned # <<>> /\ total + L > char_budget
             THEN PrepareLoopSkipping(Tail(snips), char_budget, cleaned, total)
             ELSE PrepareLoopSkipping(Tail(snips), char_budget, Append(cleaned, s),
                                      total + L)

RECURSIVE PrepareLoop(_, _, _, _)
PrepareLoop(snips, char_budget, cleaned, total) ==
    IF snips = <<>> THEN cleaned
    ELSE LET noiseless == _strip_noise(SnippetString(snips[1]))
             s == TTake(noiseless, PER_SNIP_LIMIT)
             L == TLen(s) + 1
         IN  IF TLen(noiseless) < MIN_SNIP_LEN
             THEN PrepareLoop(Tail(snips), char_budget, cleaned, total)
             ELSE IF cleaned # <<>> /\ total + L > char_budget
             THEN cleaned
             ELSE PrepareLoop(Tail(snips), char_budget, Append(cleaned, s), total + L)

_prepare_snippets(snips, char_budget) == PrepareLoop(snips, char_budget, <<>>, 0)

\* Faulty variant: the loop takes the entries off the caller's list.
SnipsLeftByPrepareDrained(snips) == <<>>

\* The caller's list once _prepare_snippets has returned: the loop only
\* reads snips and appends to its own list `cleaned`.
SnipsLeftByPrepare(snips) == snips

---------------------------------------------------------------------------
(* gpt_refiner.py: _filter_irrelevant_snippets *)

\* What client.chat.completions.create gives the relevance filter:
\*   [kind |-> "raise"]     the call raises
\*   [kind |-> "no_tool"]   a message without tool_calls
\*   [kind |-> "bad_json"]  tool-call arguments that json.loads rejects
\*   [kind |-> "data", keepMask |-> m]  parsed arguments; m is None when the
\*                          key is absent, else <<the list of booleans>>
Called(raised, value, llm_calls) ==
    [raised |-> raised, value |-> value, llm_calls |-> llm_calls]

AllTrue(n) == [i \in 1..n |-> TRUE]

\* keep_mask before the length check
ReturnedMask(snippets, llm) ==
    IF llm.kind = "no_tool" THEN AllTrue(Len(snippets))
    ELSE IF llm.kind = "bad_json" THEN <<>>
    ELSE IF llm.keepMask = None THEN <<>>
    ELSE llm.keepMask[1]

\* Faulty variant: the snippets the mask drops are the ones returned.
RECURSIVE MaskedNegated(_, _)
MaskedNegated(snippets, keep_mask) ==
    IF snippets = <<>> \/ keep_mask = <<>> THEN <<>>
    ELSE (IF keep_mask[1] THEN <<>> ELSE <<snippets[1]>>)
         \o MaskedNegated(Tail(snippets), Tail(keep_mask))

RECURSIVE Masked(_, _)
Masked(snippets, keep_mask) ==
    IF snippets = <<>> \/ keep_mask = <<>> THEN <<>>
    ELSE (IF keep_mask[1] THEN <<snippets[1]>> ELSE <<>>)
         \o Masked(Tail(snippets), Tail(keep_mask))

\* Faulty variant: an all-false mask empties the list.
_filter_without_keep_all(case, snippets, llm) ==
    IF snippets = <<>> THEN Called(FALSE, <<>>, 0)
    ELSE IF llm.kind = "raise" THEN Called(TRUE, <<>>, 1)
    ELSE LET returned  == ReturnedMask(snippets, llm)
             keep_mask == IF Len(returned) # Len(snippets)
                          THEN AllTrue(Len(snippets)) ELSE returned
         IN  Called(FALSE, Masked(snippets, keep_mask), 1)

\* Faulty variant: a mask of the wrong length is zipped as it is.
_filter_without_length_check(case, snippets, llm) ==
    IF snippets = <<>> THEN Called(FALSE, <<>>, 0)
    ELSE IF llm.kind = "raise" THEN Called(TRUE, <<>>, 1)
    ELSE LET kept == Masked(snippets, ReturnedMask(snippets, llm))
         IN  IF kept = <<>> THEN Called(FALSE, snippets, 1)
             ELSE Called(FALSE, kept, 1)

_filter_irrelevant_snippets(case, snippets, llm) ==
    IF snippets = <<>> THEN Called(FALSE, <<>>, 0)
    ELSE IF llm.kind = "raise" THEN Called(TRUE, <<>>, 1)
    ELSE LET returned  == ReturnedMask(snippets, llm)
             keep_mask == IF Len(returned) # Len(snippets)
                          THEN AllTrue(Len(snippets)) ELSE returned
             kept      == Masked(snippets, keep_mask)
         IN  IF kept = <<>> THEN Called(FALSE, snippets, 1)
             ELSE Called(FALSE, kept, 1)

---------------------------------------------------------------------------
(* gpt_refiner.py: _normalize_space, _ensure_question_mark, _format_qa *)

RECURSIVE QCollapse(_)
QCollapse(s) ==
    IF s = <<>> THEN <<>>
    ELSE IF IsBlank(s[1])
         THEN <<" ">> \o QCollapse(QLStrip(s))
         ELSE <<s[1]>> \o QCollapse(Tail(s))

\* re.sub(r"\s+", " ", (s or "").strip())
_normalize_space(s) == QCollapse(QStrip(s))

LeadWords ==
    {"what", "how", "why", "when", "where", "which", "list", "name", "define",
     "describe", "explain", "indications", "contraindications", "steps",
     "complications"}

\* the atoms that are not made of word characters
NonWord == {" ", "\n", "?", ".", ",", "!", ":"}

\* ^(what|how|...)\b, case-insensitive: a lead word that ends where the
\* string ends or a non-word character follows
StartsWithLeadWord(n) ==
    /\ n # <<>>
    /\ LowerAtom(n[1]) \in LeadWords
    /\ Len(n) = 1 \/ n[2] \in NonWord

_ensure_question_mark(q) ==
    LET n == _normalize_space(q)
    IN  IF n # <<>> /\ n[Len(n)] # "?" /\ StartsWithLeadWord(n)
        THEN Append(n, "?")
        ELSE n

NoAnswer == <<"(answer", " ", "not", " ", "provided)">>

\* Faulty variant: an empty answer is printed as it is.
_format_qa_bare(q, a) ==
    <<"Q:", " ">> \o _ensure_question_mark(q) \o <<" ", "A:", " ">> \o _normalize_space(a)

_format_qa(q, a) ==
    LET a1 == _normalize_space(a)
    IN  <<"Q:", " ">> \o _ensure_question_mark(q) \o <<" ", "A:", " ">>
        \o (IF a1 # <<>> THEN a1 ELSE NoAnswer)

---------------------------------------------------------------------------
(* gpt_refiner.py: _reformat_snippets *)

\* What client.chat.completions.create gives the reformatter:
\*   [kind |-> "raise"]
\*   [kind |-> "reply", data |-> d]  d is None when json.loads rejects the
\*       tool arguments (or, without a tool call, the content), else
\*       <<[pimpQuestions |-> list, otherUsefulFacts |-> list]>>
\* A list entry is None when it has the wrong type (not a dict, not a
\* string); a question entry is <<[question |-> text, answer |-> text]>>
\* ("" for a missing or null field), a fact entry is <<text>>.
\* Faulty variant: the seen-key is the formatted string as it stands.
RECURSIVE QuestionLoopExactKey(_, _, _)
QuestionLoopExactKey(raw_qs, seen_q, pimp_questions) ==
    IF raw_qs = <<>> THEN pimp_questions
    ELSE LET obj == raw_qs[1]
         IN  IF obj = None \/ QStrip(obj[1].question) = <<>>
             THEN QuestionLoopExactKey(Tail(raw_qs), seen_q, pimp_questions)
             ELSE LET formatted == _format_qa(obj[1].question, obj[1].answer)
                      key == formatted
                  IN  IF key \in seen_q
                      THEN QuestionLoopExactKey(Tail(raw_qs), seen_q, pimp_questions)
                      ELSE QuestionLoopExactKey(Tail(raw_qs), seen_q \cup {key},
                                                Append(pimp_questions, formatted))

RECURSIVE QuestionLoop(_, _, _)
QuestionLoop(raw_qs, seen_q, pimp_questions) ==
    IF raw_qs = <<>> THEN pimp_questions
    ELSE LET obj == raw_qs[1]
         IN  IF obj = None \/ QStrip(obj[1].question) = <<>>
             THEN QuestionLoop(Tail(raw_qs), seen_q, pimp_questions)
             ELSE LET formatted == _format_qa(obj[1].question, obj[1].answer)
                      key == QLower(_normalize_space(formatted))
                  IN  IF key \in seen_q
                      THEN QuestionLoop(Tail(raw_qs), seen_q, pimp_questions)
                      ELSE QuestionLoop(Tail(raw_qs), seen_q \cup {key},
                                        Append(pimp_questions, formatted))

\* Faulty variant: the loop never stops at MAX_FACTS_OUT.
RECURSIVE FactLoopUncapped(_, _, _)
FactLoopUncapped(raw_facts, seen_f, other_facts) ==
    IF raw_facts = <<>> THEN other_facts
    ELSE LET f == raw_facts[1]
             s == IF f = None THEN <<>> ELSE _normalize_space(f[1])
             k == QLower(s)
         IN  IF f = None \/ s = <<>> \/ k \in seen_f
             THEN FactLoopUncapped(Tail(raw_facts), seen_f, other_facts)
             ELSE FactLoopUncapped(Tail(raw_facts), seen_f \cup {k}, Append(other_facts, s))

RECURSIVE FactLoop(_, _, _)
FactLoop(raw_facts, seen_f, other_facts) ==
    IF raw_facts = <<>> THEN other_facts
    ELSE LET f == raw_facts[1]
             s == IF f = None THEN <<>> ELSE _normalize_space(f[1])
             k == QLower(s)
         IN  IF f = None \/ s = <<>> \/ k \in seen_f
             THEN FactLoop(Tail(raw_facts), seen_f, other_facts)
             ELSE IF Len(other_facts) + 1 >= MAX_FACTS_OUT
                  THEN Append(other_facts, s)
                  ELSE FactLoop(Tail(raw_facts), seen_f \cup {k}, Append(other_facts, s))

EmptyCasePrep == [pimpQuestions |-> <<>>, otherUsefulFacts |-> <<>>]

\* payload = {"case": user_query, "snippets": snippets[:MAX_SNIPPETS_FOR_REFORMAT]}
ReformatPayload(user_query, snippets) ==
    [case |-> user_query, snippets |-> Take(snippets, MAX_SNIPPETS_FOR_REFORMAT)]

_reformat_snippets(user_query, snippets, llm) ==
    IF snippets = <<>> THEN Called(FALSE, EmptyCasePrep, 0)
    ELSE IF llm.kind = "raise" THEN Called(TRUE, EmptyCasePrep, 1)
    ELSE LET raw_qs    == IF llm.data = None THEN <<>> ELSE llm.data[1].pimpQuestions
             raw_facts == IF llm.data = None THEN <<>> ELSE llm.data[1].otherUsefulFacts
         IN  Called(FALSE,
                    [pimpQuestions    |-> QuestionLoop(raw_qs, {}, <<>>),
                     otherUsefulFacts |-> FactLoop(raw_facts, {}, <<>>)],
                    1)

---------------------------------------------------------------------------
(* anatomy_gpt.py: select_approaches and the stages of run_pipeline *)

\* the ids of the approach catalog loaded at startup
CatalogIds == {"ap1", "ap2"}

\* Faulty variant: the IDs the model returned are passed on unchecked.
select_approaches_unchecked(llm) ==
    IF llm.kind = "raise" THEN Called(TRUE, [selected |-> <<>>, notes |-> ""], 1)
    ELSE IF llm.selected = <<>>
         THEN Called(FALSE, [selected |-> <<>>, notes |-> "No valid approach IDs returned."], 1)
         ELSE Called(FALSE, [selected |-> llm.selected, notes |-> llm.notes], 1)

\* llm is what OpenAIJson.run does: [kind |-> "raise"], or
\* [kind |-> "reply", selected |-> list of [id |-> ...], notes |-> text]
select_approaches(llm) ==
    IF llm.kind = "raise" THEN Called(TRUE, [selected |-> <<>>, notes |-> ""], 1)
    ELSE LET valid_ids == CatalogIds
             selected  == SelectSeq(llm.selected, LAMBDA x : x.id \in valid_ids)
         IN  IF selected = <<>>
             THEN Called(FALSE,
                         [selected |-> <<>>, notes |-> "No valid approach IDs returned."], 1)
             ELSE Called(FALSE, [selected |-> selected, notes |-> llm.notes], 1)

\* selected_ids = [x["id"] for x in sel.get("selected", [])]
SelectedIds(sel) == [i \in DOMAIN sel.selected |-> sel.selected[i].id]

\* Faulty variant: the pipeline goes on with an empty selection.
NoApproachSelectedIgnored(sel) == FALSE

\* if not selected_ids: (the short-circuit of run_pipeline)
NoApproachSelected(sel) == SelectedIds(sel) = <<>>

EmptyQuiz == [questions |-> <<>>]

\* The caller's list once extract_high_yield has built its payload:
\* `retrieved_snippets or []` is read by json.dumps and nothing else.
SnippetsLeftByPayload(retrieved_snippets) == retrieved_snippets

EmptyHighYield == [structures |-> <<>>]

---------------------------------------------------------------------------
(* Inputs: what the caller, the models and the vector store may supply *)

Prompts ==
    { <<>>,
      <<" ", "\n">>,
      <<" ", "hip", " ", "fx", " ">> }

RefineOutcomes ==
    { [raise |-> <<"timeout">>],
      [content |-> None],
      [content |-> Some(<<>>)],
      [content |-> Some(<<" ", "\n">>)],
      [content |-> Some(<<"acl", " ", "tear">>)],
      [content |-> Some(<<" ", "Trauma", ",", " ", "Hip", ",", " ", "fx">>)],
      [content |-> Some(<<"Sports", ",", "Trauma", ",", "Knee", ",", "Hip">>)] }

Letters(c, n) == <<Run(c, n)>>

Metadata(text, source, specialty, region) ==
    [text |-> text, source |-> source, specialty |-> specialty, region |-> region,
     diagnosis |-> None, procedure |-> None]

SampleMatches ==
    { [score |-> 90, metadata |->
          Metadata(Some(Letters("a", 12)), Some(Letters("s", 2)), Some("trauma"), Some("hip"))],
      [score |-> 80, metadata |->
          Metadata(Some(<<Run("A", 12), Run("\n", 1)>>), None, Some("sports"), Some("knee"))],
      [score |-> 52, metadata |->
          Metadata(Some(Letters("b", 12)), None, None, None)],
      [score |-> 40, metadata |->
          Metadata(Some(Letters("b", 3)), None, Some("trauma"), Some("hip"))] }

\* the store answers best first
Rankings ==
    {r \in SeqsUpTo(SampleMatches, MaxIndex) :
        \A i \in 1..(Len(r) - 1) : r[i].score >= r[i + 1].score}

FilterOutcomes(n) ==
    { [kind |-> "raise"], [kind |-> "no_tool"], [kind |-> "bad_json"],
      [kind |-> "data", keepMask |-> None] }
    \cup {[kind |-> "data", keepMask |-> Some(m)] : m \in SeqsUpTo(BOOLEAN, n + 1)}

QA(q, a) == Some([question |-> q, answer |-> a])

ReformatOutcomes ==
    { [kind |-> "raise"],
      [kind |-> "reply", data |-> None],
      [kind |-> "reply", data |-> Some(EmptyCasePrep)],
      [kind |-> "reply", data |-> Some(
          [pimpQuestions |->
              << QA(<<"What", " ", "nerve">>, <<"sciatic">>),
                 None,
                 QA(<<" ">>, <<"nothing">>),
                 QA(<<"what", " ", "\n", "nerve", "?">>, <<" ", "Sciatic">>),
                 QA(<<"Blood", " ", "supply">>, <<>>) >>,
           otherUsefulFacts |->
              << Some(<<"AVN", " ", " ", "risk">>), None, Some(<<"\n">>),
                 Some(<<"avn", " ", "risk">>) >>])] }

SelectOutcomes ==
    { [kind |-> "raise"] }
    \cup {[kind |-> "reply", selected |-> sel, notes |-> "picked"] :
            sel \in { <<>>, <<[id |-> "ap1"]>>, <<[id |-> "bogus"]>>,
                      <<[id |-> "bogus"], [id |-> "ap2"]>> }}

StageOutcomes == {"raise", "reply"}

---------------------------------------------------------------------------
(* ImportanceRanker and RankCache, after section 4.6 of the specification:
   gpt_refiner.py has no ranking stage, so the component is modelled from
   its description *)

\* the pad value of a score vector that came back short
RANK_DEFAULT_SCORE == 50

\* rank(case, items, label) is called by concurrent requests
RankCallers == {1, 2}

RankLabels == {"questions", "facts"}

RankCases == { <<"hip", " ", "fx">> }

RankItemLists == { <<>>, <<"a">>, <<"a", "b">>, <<"a", "a">> }

\* scores the model may emit, 0..100
ScoreValues == {0, 100}

\* one score vector per call, of any length up to MaxSurplus past the items
ScoreVectors(n) == SeqsUpTo(ScoreValues, n + MaxSurplus)

\* (hash(case_text), label, hash(canonical_json(items))): the hashes are
\* stable and told apart on every pair of texts drawn here, the JSON
\* encoding keeps the order of the list
RankKey(case, label, items) == [case |-> case, label |-> label, items |-> items]

\* Faulty variant: the lookup never finds an entry.
CacheGetMiss(cache, key) == None

CacheGet(cache, key) ==
    IF \E e \in cache : e.key = key
    THEN Some((CHOOSE e \in cache : e.key = key).scores)
    ELSE None

\* Faulty variant: the entry becomes visible before the vector is complete.
CachePutTorn(cache, key, scores) ==
    {e \in cache : e.key # key} \cup {[key |-> key, scores |-> Take(scores, Len(scores) - 1)]}

\* cache[key] = scores, one indivisible insert; a later writer replaces the
\* vector of an earlier one
CachePut(cache, key, scores) ==
    {e \in cache : e.key # key} \cup {[key |-> key, scores |-> scores]}

\* Faulty variant: a long vector is cut but a short one is not padded.
RepairScoresNoPad(scores, n) == Take(scores, n)

\* truncate if longer, pad with the default if shorter
RepairScores(scores, n) ==
    Take(scores \o [i \in 1..n |-> RANK_DEFAULT_SCORE], n)

\* descending by score, equal scores in input order; items and scores are
\* paired position by position
StableSortDesc(items, scores) ==
    LET n == IF Len(items) < Len(scores) THEN Len(items) ELSE Len(scores)
        Before(j, i) == scores[j] > scores[i] \/ (scores[j] = scores[i] /\ j < i)
        PosOf(i) == 1 + Cardinality({j \in 1..n : Before(j, i)})
    IN  [k \in 1..n |-> items[CHOOSE i \in 1..n : PosOf(i) = k]]

\* the order rank returns for a score vector as it came back or was cached
Ranked(items, scores) == StableSortDesc(items, RepairScores(scores, Len(items)))

RankIdle ==
    [pc |-> "idle", case |-> <<>>, label |-> "none", items |-> <<>>,
     after |-> {}, read |-> None, scored |-> None, out |-> None]

KeyOf(r) == RankKey(r.case, r.label, r.items)

\* a caller enters rank(case, items, label); after holds the callers whose
\* call had returned by then
RankCall(c) ==
    /\ rankreq[c].pc = "idle"
    /\ \E case \in RankCases, label \in RankLabels, items \in RankItemLists :
        rankreq' = [rankreq EXCEPT ![c] =
            [RankIdle EXCEPT !.pc = "lookup", !.case = case, !.label = label,
                             !.items = items,
                             !.after = {d \in RankCallers : rankreq[d].pc = "done"}]]
    /\ UNCHANGED <<hashseed, pipevars, rankcache, unit>>

\* the cache lookup; on a hit the stored vector orders the items and the
\* call returns
RankLookup(c) ==
    /\ rankreq[c].pc = "lookup"
    /\ \E hit \in {CacheGet(rankcache, KeyOf(rankreq[c]))} :
        rankreq' = [rankreq EXCEPT ![c] =
            IF hit = None
            THEN [rankreq[c] EXCEPT !.pc = "scoring"]
            ELSE [rankreq[c] EXCEPT !.pc = "done", !.read = hit,
                           !.out = Some(Ranked(rankreq[c].items, hit[1]))]]
    /\ UNCHANGED <<hashseed, pipevars, rankcache, unit>>

\* on a miss, the one structured scoring call: the model answers with a
\* score vector of its own choosing
RankScore(c) ==
    /\ rankreq[c].pc = "scoring"
    /\ \E scores \in ScoreVectors(Len(rankreq[c].items)) :
        rankreq' = [rankreq EXCEPT ![c] = [rankreq[c] EXCEPT !.pc = "store", !.scored = Some(scores)]]
    /\ UNCHANGED <<hashseed, pipevars, rankcache, unit>>

\* the returned vector is stored under the key and orders the items
RankStore(c) ==
    /\ rankreq[c].pc = "store"
    /\ rankcache' = CachePut(rankcache, KeyOf(rankreq[c]), rankreq[c].scored[1])
    /\ rankreq' = [rankreq EXCEPT ![c] =
            [rankreq[c] EXCEPT !.pc = "done", !.out = Some(Ranked(rankreq[c].items, rankreq[c].scored[1]))]]
    /\ UNCHANGED <<hashseed, pipevars, unit>>

---------------------------------------------------------------------------
(* single functions called on their own *)

\* no function has been called
NoUnit == [op |-> "none", in |-> <<>>, out |-> <<>>]

---------------------------------------------------------------------------
(* main.py: the /case-prep handler and its two worker branches *)

NoPromptSentinel == <<"(x)", " ", "No", " ", "prompt", " ", "provided">>

NoContentSentinel ==
    <<"(x)", " ", "No", " ", "relevant", " ", "content", " ", "found.">>

\* a returned body, or the exception that left the handler (the server
\* answers it with a transport-level error)
Returned(pimpQuestions, otherUsefulFacts, anatomy_result) ==
    Some([status |-> "ok", pimpQuestions |-> pimpQuestions,
          otherUsefulFacts |-> otherUsefulFacts, anatomy |-> anatomy_result])

Raised == Some([status |-> "error"])

\* Faulty variant: the prompt is tested without trimming it.
PromptMissingUntrimmed(p) == p = <<>>

\* prompt = (request.prompt or "").strip(); if not prompt: ...
PromptMissing(p) == QStrip(p) = <<>>

\* Faulty variant: the empty check is missing.
NothingRetrievedUnchecked(snippets) == FALSE

\* if not snippets: ...
NothingRetrieved(snippets) == snippets = <<>>

NoCalls ==
    [refine |-> 0, embed |-> 0, query |-> 0, filter |-> 0, reformat |-> 0, anatomy |-> 0]

NoRetrieval == [raised_at |-> "none", snippets |-> <<>>, embeds |-> 0, queries |-> <<>>]

\* a branch: its position, the locals it holds and, once done, its result
CasePrepAt(at, prepped, kept, llm, result) ==
    [pc |-> at, prepped |-> prepped, kept |-> kept, llm |-> llm, result |-> result]

AnatomyAt(at, sel, quiz, high_yield) ==
    [pc |-> at, sel |-> sel, quiz |-> quiz, high_yield |-> high_yield]

NoSelection == [selected |-> <<>>, notes |-> ""]

Init ==
    /\ pc = "idle"
    /\ hashseed \in {0, 1}
    /\ prompt = <<>>
    /\ refined = <<>>
    /\ index = <<>>
    /\ retrieval = NoRetrieval
    /\ caseprep = CasePrepAt("none", <<>>, <<>>, None, EmptyCasePrep)
    /\ anatomy = AnatomyAt("none", NoSelection, EmptyQuiz, EmptyHighYield)
    /\ calls = NoCalls
    /\ response = None
    /\ rankcache = {}
    /\ rankreq = [c \in RankCallers |-> RankIdle]
    /\ unit = NoUnit

\* case_prep up to its first await
Receive ==
    /\ pc = "idle"
    /\ \E p \in Prompts :
        /\ prompt' = p
        /\ IF PromptMissing(p)
           THEN /\ response' = Returned(<<>>, <<NoPromptSentinel>>, None)
                /\ pc' = "responded"
           ELSE /\ response' = response
                /\ pc' = "refine"
    /\ UNCHANGED <<hashseed, rankvars, unit, refined, index, retrieval, caseprep, anatomy, calls>>

\* refined_prompt = await run_in_threadpool(refine_query, prompt)
Refine ==
    /\ pc = "refine"
    /\ \E llm \in RefineOutcomes :
        \E r \in {refine_query(QStrip(prompt), llm)} :
            /\ refined' = r.value
            /\ calls' = [calls EXCEPT !.refine = @ + r.llm_calls]
    /\ pc' = "retrieve"
    /\ UNCHANGED <<hashseed, rankvars, unit, prompt, index, retrieval, caseprep, anatomy, response>>

\* snippets = await run_in_threadpool(get_case_snippets, refined_prompt),
\* the empty check, and the dispatch of both branches by asyncio.gather
Retrieve ==
    /\ pc = "retrieve"
    /\ \E ranked \in Rankings, embed_ok \in BOOLEAN, q1_ok \in BOOLEAN, q2_ok \in BOOLEAN :
        \E r \in {get_case_snippets(refined, ranked, embed_ok, q1_ok, q2_ok)} :
            /\ index' = ranked
            /\ retrieval' = r
            /\ calls' = [calls EXCEPT !.embed = @ + r.embeds,
                                      !.query = @ + Len(r.queries)]
            /\ IF r.raised_at # "none"
               THEN /\ response' = Raised
                    /\ pc' = "responded"
                    /\ UNCHANGED <<caseprep, anatomy>>
               ELSE IF NothingRetrieved(r.snippets)
               THEN /\ response' = Returned(<<>>, <<NoContentSentinel>>, None)
                    /\ pc' = "responded"
                    /\ UNCHANGED <<caseprep, anatomy>>
               ELSE /\ response' = response
                    /\ pc' = "join"
                    /\ caseprep' = [caseprep EXCEPT !.pc = "start"]
                    /\ anatomy' = [anatomy EXCEPT !.pc = "select"]
    /\ UNCHANGED <<hashseed, rankvars, unit, prompt, refined>>

\* refine_case_snippets, first half: _prepare_snippets, the empty check and
\* _filter_irrelevant_snippets
CasePrepFilter ==
    /\ caseprep.pc = "start"
    /\ \E prepped \in {_prepare_snippets(retrieval.snippets, SNIP_CHAR_BUDGET)} :
           IF prepped = <<>>
           THEN /\ caseprep' = CasePrepAt("done", <<>>, <<>>, None, EmptyCasePrep)
                /\ calls' = calls
           ELSE \E llm \in FilterOutcomes(Len(prepped)) :
                   \E f \in {_filter_irrelevant_snippets(QStrip(prompt), prepped, llm)} :
                       /\ calls' = [calls EXCEPT !.filter = @ + f.llm_calls]
                       /\ caseprep' =
                            IF f.raised
                            THEN CasePrepAt("failed", <<>>, <<>>, None, EmptyCasePrep)
                            ELSE CasePrepAt("filtered", prepped, f.value, Some(llm),
                                            EmptyCasePrep)
    /\ retrieval' = [retrieval EXCEPT !.snippets = SnipsLeftByPrepare(@)]
    /\ UNCHANGED <<pc, hashseed, rankvars, unit, prompt, refined, index, anatomy, response>>

\* refine_case_snippets, second half: _reformat_snippets and the return
CasePrepReformat ==
    /\ caseprep.pc = "filtered"
    /\ \E llm \in ReformatOutcomes :
        \E r \in {_reformat_snippets(QStrip(prompt), caseprep.kept, llm)} :
            /\ calls' = [calls EXCEPT !.reformat = @ + r.llm_calls]
            /\ caseprep' =
                 IF r.raised
                 THEN CasePrepAt("failed", <<>>, <<>>, None, EmptyCasePrep)
                 ELSE CasePrepAt("done", <<>>, <<>>, None, r.value)
    /\ UNCHANGED <<pc, hashseed, rankvars, unit, prompt, refined, index, retrieval, anatomy, response>>

\* run_pipeline: select_approaches and the short-circuit
AnatomySelect ==
    /\ anatomy.pc = "select"
    /\ \E llm \in SelectOutcomes :
        \E r \in {select_approaches(llm)} :
            /\ calls' = [calls EXCEPT !.anatomy = @ + r.llm_calls]
            /\ anatomy' =
                 IF r.raised THEN AnatomyAt("failed", NoSelection, EmptyQuiz, EmptyHighYield)
                 ELSE IF NoApproachSelected(r.value)
                 THEN AnatomyAt("done", r.value, EmptyQuiz, EmptyHighYield)
                 ELSE AnatomyAt("quiz", r.value, EmptyQuiz, EmptyHighYield)
    /\ UNCHANGED <<pc, hashseed, rankvars, unit, prompt, refined, index, retrieval, caseprep, response>>

\* run_pipeline: build_quiz
AnatomyQuiz ==
    /\ anatomy.pc = "quiz"
    /\ \E out \in StageOutcomes :
        anatomy' =
            IF out = "raise"
            THEN AnatomyAt("failed", NoSelection, EmptyQuiz, EmptyHighYield)
            ELSE AnatomyAt("high_yield", anatomy.sel,
                           [questions |-> SelectedIds(anatomy.sel)], EmptyHighYield)
    /\ calls' = [calls EXCEPT !.anatomy = @ + 1]
    /\ UNCHANGED <<pc, hashseed, rankvars, unit, prompt, refined, index, retrieval, caseprep, response>>

\* run_pipeline: extract_high_yield and the return
AnatomyHighYield ==
    /\ anatomy.pc = "high_yield"
    /\ \E out \in StageOutcomes :
        anatomy' =
            IF out = "raise"
            THEN AnatomyAt("failed", NoSelection, EmptyQuiz, EmptyHighYield)
            ELSE AnatomyAt("done", anatomy.sel, anatomy.quiz,
                           [structures |-> SelectedIds(anatomy.sel)])
    /\ calls' = [calls EXCEPT !.anatomy = @ + 1]
    /\ retrieval' = [retrieval EXCEPT !.snippets = SnippetsLeftByPayload(@)]
    /\ UNCHANGED <<pc, hashseed, rankvars, unit, prompt, refined, index, caseprep, response>>

AnatomyResult ==
    [approachSelection |-> anatomy.sel, anatomyQuiz |-> anatomy.quiz,
     highYieldAnatomy |-> anatomy.high_yield]

\* asyncio.gather returns: both branches have returned; the merge
JoinReturn ==
    /\ pc = "join"
    /\ caseprep.pc = "done"
    /\ anatomy.pc = "done"
    /\ response' = Returned(caseprep.result.pimpQuestions,
                            caseprep.result.otherUsefulFacts, Some(AnatomyResult))
    /\ pc' = "responded"
    /\ UNCHANGED <<hashseed, rankvars, unit, prompt, refined, index, retrieval, caseprep, anatomy, calls>>

\* asyncio.gather raises: return_exceptions is False, so the first
\* exception of either branch goes to the awaiting handler at once; the
\* other branch is not cancelled
JoinRaise ==
    /\ pc = "join"
    /\ caseprep.pc = "failed" \/ anatomy.pc = "failed"
    /\ response' = Raised
    /\ pc' = "responded"
    /\ UNCHANGED <<hashseed, rankvars, unit, prompt, refined, index, retrieval, caseprep, anatomy, calls>>

\* refine_query called on its own, as the interactive loops of
\* query_refiner.py and vector_search.py do, with any prompt
RefineQueryCall ==
    /\ pc = "idle"
    /\ \E p \in Prompts, llm \in RefineOutcomes :
        \E r \in {refine_query(p, llm)} :
            /\ prompt' = p
            /\ refined' = r.value
            /\ calls' = [calls EXCEPT !.refine = @ + r.llm_calls]
    /\ pc' = "printed"
    /\ UNCHANGED <<hashseed, rankvars, unit, index, retrieval, caseprep, anatomy, response>>

Next ==
    \/ Receive
    \/ Refine
    \/ Retrieve
    \/ CasePrepFilter
    \/ CasePrepReformat
    \/ AnatomySelect
    \/ AnatomyQuiz
    \/ AnatomyHighYield
    \/ JoinReturn
    \/ JoinRaise
    \/ RefineQueryCall

Spec == Init /\ [][Next]_vars

\* concurrent callers of ImportanceRanker.rank on the shared RankCache
RankNext ==
    \/ \E c \in RankCallers : RankCall(c)
    \/ \E c \in RankCallers : RankLookup(c)
    \/ \E c \in RankCallers : RankScore(c)
    \/ \E c \in RankCallers : RankStore(c)

RankSpec == Init /\ [][RankNext]_vars

---------------------------------------------------------------------------
(* vector_search.py: the filter builder and the score/dedupe step called
   on their own, as the interactive block does, on wider inputs *)

\* what a refined query is made of
QueryAtoms ==
    {" ", ",", "hip", "Trauma", "sports", "elbow", "fx", "adult", "reconstruction"}

UnitQueries == SeqsUpTo(QueryAtoms, MaxQueryLen)

UnitText(chars) == Some(Lit(chars))

UnitMatches ==
    { [score |-> 90, metadata |->
          Metadata(UnitText(<<"a", " ", "b">>), None, Some("trauma"), Some("hip"))],
      [score |-> 85, metadata |->
          Metadata(UnitText(<<"x", " ", "x", " ", "x", " ", "x", " ", "x", " ", "x", " ",
                              "x", " ", "x", " ", "y">>), None, None, None)],
      [score |-> 84, metadata |->
          Metadata(UnitText(<<"x", " ", "x", " ", "x", " ", "x", " ", "x", " ", "x", " ",
                              "x", " ", "x", " ", "z">>), None, None, None)],
      [score |-> 80, metadata |->
          Metadata(UnitText(<<"a", " ", " ", "b">>), None, None, None)],
      [score |-> 70, metadata |->
          Metadata(UnitText(<<"A", " ", "b", "\n">>), None, Some("sports"), None)],
      [score |-> 60, metadata |-> Metadata(UnitText(<<" ">>), None, None, None)],
      [score |-> 52, metadata |-> Metadata(None, None, None, None)],
      [score |-> 52, metadata |-> Metadata(Some(<<>>), None, None, None)],
      [score |-> 51, metadata |-> Metadata(UnitText(<<"c">>), None, None, None)] }

\* the store answers best first
UnitRankings ==
    {r \in SeqsUpTo(UnitMatches, MaxIndex) :
        \A i \in 1..(Len(r) - 1) : r[i].score >= r[i + 1].score}

\* _build_metadata_filter_from_query(q)
UnitBuildFilter ==
    /\ unit.op = "none"
    /\ \E q \in UnitQueries :
        unit' = [op |-> "filter", in |-> q, out |-> _build_metadata_filter_from_query(q)]
    /\ UNCHANGED <<hashseed, pipevars, rankvars>>

\* the server process is started anew (or another worker process takes the
\* next call): string hashing is seeded per process
UnitRestart ==
    /\ unit.op = "filter"
    /\ hashseed' \in {0, 1}
    /\ unit' = [unit EXCEPT !.op = "restarted"]
    /\ UNCHANGED <<pipevars, rankvars>>

\* the same query again; out holds the first answer and this one
UnitBuildFilterAgain ==
    /\ unit.op \in {"filter", "restarted"}
    /\ unit' = [op |-> "filter_again", in |-> unit.in,
                out |-> <<unit.out, _build_metadata_filter_from_query(unit.in)>>]
    /\ UNCHANGED <<hashseed, pipevars, rankvars>>

\* _score_matches(matches)
UnitScoreMatches ==
    /\ unit.op = "none"
    /\ \E matches \in UnitRankings :
        unit' = [op |-> "score", in |-> matches, out |-> _score_matches(matches)]
    /\ UNCHANGED <<hashseed, pipevars, rankvars>>

\* retrieved snippets of several lengths: too short, short, over the
\* per-snippet limit, with a source, and long only because of markup
UnitSnippets ==
    { [text |-> Letters("a", 5), source |-> None],
      [text |-> Letters("b", 12), source |-> None],
      [text |-> Letters("c", 900), source |-> None],
      [text |-> Letters("d", 3), source |-> Some(Letters("s", 2))],
      [text |-> <<Run("<", 1), Run("e", 20), Run(">", 1), Run("e", 3)>>, source |-> None] }

UnitBudgets == {5, 13, 26, 801, 814, 8000}

\* _prepare_snippets(snips, char_budget)
UnitPrepareSnippets ==
    /\ unit.op = "none"
    /\ \E snips \in SeqsUpTo(UnitSnippets, MaxSnips), char_budget \in UnitBudgets :
        unit' = [op |-> "prepare", in |-> [snips |-> snips, char_budget |-> char_budget],
                 out |-> _prepare_snippets(snips, char_budget)]
    /\ UNCHANGED <<hashseed, pipevars, rankvars>>

\* gpt_refiner.py: the two lists of _reformat_snippets and
\* _ensure_question_mark, on wider replies

\* entries the model may put in pimpQuestions
UnitPairs ==
    { QA(<<"What", " ", "nerve">>, <<"sciatic">>),
      QA(<<"what", " ", "\n", "nerve", "?">>, <<" ", "Sciatic">>),
      QA(<<"Blood", " ", "supply">>, <<>>),
      QA(<<"Blood", " ", " ", "supply">>, <<" ">>),
      QA(<<" ">>, <<"nothing">>),
      None }

\* fact number i, told apart from every other one
UnitFact(i) == Some(<<"fact", " ", ToString(i)>>)

\* n distinct facts, as they are or with one more entry put in second
\* place: a repeat of the first in capitals, a blank string, or a
\* non-string
UnitFactLists ==
    LET plain(n) == [i \in 1..n |-> UnitFact(i)]
        with(n, extra) == <<UnitFact(1), extra>> \o [i \in 1..(n - 1) |-> UnitFact(i + 1)]
    IN  {plain(n) : n \in 0..MaxFacts}
        \cup {with(n, extra) : n \in 1..MaxFacts,
                               extra \in {Some(<<"Fact", " ", " ", "1">>),
                                          Some(<<" ", "\n">>), None}}

\* a one-snippet list for the reformatter to work on
UnitKept == <<Letters("k", 12)>>

\* _reformat_snippets on a reply that holds questions only
UnitReformatQuestions ==
    /\ unit.op = "none"
    /\ \E raw_qs \in SeqsUpTo(UnitPairs, MaxPairs) :
        \E r \in {_reformat_snippets(<<"hip">>, UnitKept,
                      [kind |-> "reply",
                       data |-> Some([pimpQuestions |-> raw_qs, otherUsefulFacts |-> <<>>])])} :
            unit' = [op |-> "questions", in |-> raw_qs, out |-> r.value.pimpQuestions]
    /\ UNCHANGED <<hashseed, pipevars, rankvars>>

\* _reformat_snippets on a reply that holds facts only
UnitReformatFacts ==
    /\ unit.op = "none"
    /\ \E raw_facts \in UnitFactLists :
        \E r \in {_reformat_snippets(<<"hip">>, UnitKept,
                      [kind |-> "reply",
                       data |-> Some([pimpQuestions |-> <<>>, otherUsefulFacts |-> raw_facts])])} :
            unit' = [op |-> "facts", in |-> raw_facts, out |-> r.value.otherUsefulFacts]
    /\ UNCHANGED <<hashseed, pipevars, rankvars>>

\* what a question is made of
QuestionAtoms == {" ", "\n", "What", "list", "nerve", "?", "."}

\* _ensure_question_mark(q)
UnitEnsureQuestionMark ==
    /\ unit.op = "none"
    /\ \E q \in SeqsUpTo(QuestionAtoms, MaxQuestionLen) :
        unit' = [op |-> "question_mark", in |-> q, out |-> _ensure_question_mark(q)]
    /\ UNCHANGED <<hashseed, pipevars, rankvars>>

UnitNext ==
    \/ UnitBuildFilter
    \/ UnitRestart
    \/ UnitBuildFilterAgain
    \/ UnitScoreMatches
    \/ UnitPrepareSnippets
    \/ UnitReformatQuestions
    \/ UnitReformatFacts
    \/ UnitEnsureQuestionMark

UnitSpec == Init /\ [][UnitNext]_vars

---------------------------------------------------------------------------
(* Properties *)

\* get_case_snippets has run and what it found is in `retrieval`
RetrievalRan == retrieval.embeds = 1

\* the filter get_case_snippets built, and what each query gives after
\* score/dedupe on the store it saw
BuiltFilter == _build_metadata_filter_from_query(refined)

FilteredSnippets == _score_matches(index_query(index, BuiltFilter))

UnfilteredSnippets == _score_matches(index_query(index, None))

\* C1: whenever get_case_snippets returns for a query whose filter is not
\* None and whose filtered query leaves no snippet after score/dedupe, the
\* value returned is the score/dedupe of the unfiltered query (same vector,
\* same top_k).
C1_FallbackInvariant ==
    (/\ RetrievalRan
     /\ retrieval.raised_at = "none"
     /\ BuiltFilter # None
     /\ FilteredSnippets = <<>>)
    => retrieval.snippets = UnfilteredSnippets

\* a filter that starves retrieval while the unfiltered store has content
C1_Witness ==
    /\ RetrievalRan
    /\ retrieval.raised_at = "none"
    /\ BuiltFilter # None
    /\ index_query(index, BuiltFilter) # <<>>
    /\ FilteredSnippets = <<>>
    /\ retrieval.snippets # <<>>

\* C2: once the filter is built, one retrieval issues one or two store
\* queries, the first with the built filter; a second one is issued exactly
\* when the filter is not None and the first query returned no snippet after
\* score/dedupe, and it carries no filter; a non-empty filtered result is the
\* value returned; with a None filter exactly one query is issued.
C2_AtMostOneFallback ==
    (RetrievalRan /\ retrieval.raised_at # "embed") =>
        /\ Len(retrieval.queries) \in {1, 2}
        /\ calls.query = Len(retrieval.queries)
        /\ retrieval.queries[1] = BuiltFilter
        /\ Len(retrieval.queries) = 2 <=>
              (/\ BuiltFilter # None
               /\ retrieval.raised_at # "query1"
               /\ FilteredSnippets = <<>>)
        /\ Len(retrieval.queries) = 2 => retrieval.queries[2] = None
        /\ (retrieval.raised_at = "none" /\ FilteredSnippets # <<>>) =>
              (retrieval.snippets = FilteredSnippets /\ Len(retrieval.queries) = 1)
        /\ BuiltFilter = None => Len(retrieval.queries) = 1

\* a None filter whose only query found nothing: no second query follows
C2_Witness ==
    /\ RetrievalRan
    /\ retrieval.raised_at = "none"
    /\ BuiltFilter = None
    /\ retrieval.snippets = <<>>
    /\ index # <<>>
    /\ Len(retrieval.queries) = 1

\* C3: whatever the model returns for the keep-mask, the relevance filter
\* does not return an empty list for a non-empty snippet list.
C3_FilterFailsOpen ==
    (caseprep.pc = "filtered" /\ caseprep.prepped # <<>>) => caseprep.kept # <<>>

\* a right-length mask that drops every snippet
C3_Witness ==
    /\ caseprep.pc = "filtered"
    /\ Len(caseprep.prepped) = 2
    /\ caseprep.llm = Some([kind |-> "data", keepMask |-> Some(<<FALSE, FALSE>>)])
    /\ caseprep.kept = caseprep.prepped

\* the mask the model returned, when it returned one
MaskReturned ==
    /\ caseprep.pc = "filtered"
    /\ caseprep.llm # None
    /\ caseprep.llm[1].kind = "data"
    /\ caseprep.llm[1].keepMask # None

\* C4: a returned keep-mask whose length differs from the number of input
\* snippets is discarded: the filter returns every input snippet, in order.
C4_WrongLengthMaskDiscarded ==
    (MaskReturned /\ Len(caseprep.llm[1].keepMask[1]) # Len(caseprep.prepped))
        => caseprep.kept = caseprep.prepped

\* a mask one too long whose leading entries would drop a snippet
C4_Witness ==
    /\ MaskReturned
    /\ Len(caseprep.prepped) = 2
    /\ caseprep.llm[1].keepMask[1] = <<FALSE, TRUE, TRUE>>
    /\ caseprep.kept = caseprep.prepped

\* refine_query has returned for the prompt in `prompt`
RefineReturned == pc = "printed" \/ calls.refine > 0 \/ pc \in {"retrieve", "join"}

\* C5 (as claimed): for a prompt that is not empty after trimming,
\* refine_query returns a non-empty string whatever the model call does.
C5_RefinedNonEmpty ==
    (RefineReturned /\ QStrip(prompt) # <<>>) => refined # <<>>

\* C6: refine_query on a prompt that is empty after trimming returns the
\* empty string and issues no model call.
C6_EmptyPromptNoCall ==
    (pc = "printed" /\ QStrip(prompt) = <<>>) => (refined = <<>> /\ calls.refine = 0)

\* a blank, non-empty prompt handed to refine_query
C6_Witness ==
    /\ pc = "printed"
    /\ prompt = <<" ", "\n">>
    /\ refined = <<>>
    /\ calls = NoCalls

\* C7: a /case-prep request whose prompt is empty after trimming is answered
\* with pimpQuestions = [] and otherUsefulFacts = [no-prompt sentinel], and
\* no external call is issued and no branch started for it.
C7_EmptyPromptResponse ==
    (pc \notin {"idle", "printed"} /\ QStrip(prompt) = <<>>) =>
        /\ pc = "responded"
        /\ response # None
        /\ response[1].status = "ok"
        /\ response[1].pimpQuestions = <<>>
        /\ response[1].otherUsefulFacts = <<NoPromptSentinel>>
        /\ calls = NoCalls
        /\ caseprep.pc = "none"
        /\ anatomy.pc = "none"

\* a request whose prompt is blanks only
C7_Witness ==
    /\ pc = "responded"
    /\ prompt = <<" ", "\n">>
    /\ response = Returned(<<>>, <<NoPromptSentinel>>, None)

\* C8: when retrieval returns no snippet, the response has
\* pimpQuestions = [] and otherUsefulFacts = [no-content sentinel], and
\* neither branch is dispatched.
C8_NoContentResponse ==
    (RetrievalRan /\ retrieval.raised_at = "none" /\ retrieval.snippets = <<>>) =>
        /\ pc = "responded"
        /\ response # None
        /\ response[1].status = "ok"
        /\ response[1].pimpQuestions = <<>>
        /\ response[1].otherUsefulFacts = <<NoContentSentinel>>
        /\ caseprep.pc = "none"
        /\ anatomy.pc = "none"
        /\ calls.filter = 0 /\ calls.reformat = 0 /\ calls.anatomy = 0

\* the filtered query and its unfiltered fallback both came back empty
C8_Witness ==
    /\ RetrievalRan
    /\ retrieval.raised_at = "none"
    /\ Len(retrieval.queries) = 2
    /\ index # <<>>
    /\ retrieval.snippets = <<>>
    /\ response = Returned(<<>>, <<NoContentSentinel>>, None)

\* C9 (as claimed): when the model call of the relevance filter or of the
\* reformatter fails, and nothing else does, the handler still answers with
\* a normal body.
C9_CasePrepFailureAbsorbed ==
    (pc = "responded" /\ caseprep.pc = "failed" /\ anatomy.pc # "failed")
        => (response # None /\ response[1].status = "ok")

\* C10 (as claimed): when the embedding call or a store query fails, the
\* request ends with the no-content sentinel response.
C10_RetrievalFailureAbsorbed ==
    (pc = "responded" /\ RetrievalRan /\ retrieval.raised_at # "none")
        => response = Returned(<<>>, <<NoContentSentinel>>, None)

---------------------------------------------------------------------------
(* the refinement failure path of case_prep *)

\* C11: when the refinement call raises, refine_query returns the error
\* marker built from the exception (one call issued, nothing raised), the
\* handler moves on to retrieval without producing a response, and
\* retrieval is invoked with the marker as the refined query: the filter of
\* its first store query is the one built from the marker.
C11_RefineFailureContinues ==
    [][ /\ pc = "refine" =>
            /\ pc' = "retrieve"
            /\ response' = None
            /\ \A llm \in RefineOutcomes :
                  "raise" \in DOMAIN llm =>
                     refine_query(QStrip(prompt), llm) =
                        [value |-> ErrorMarker(llm.raise), llm_calls |-> 1]
        /\ (pc = "retrieve" /\ \E llm \in RefineOutcomes :
                                 "raise" \in DOMAIN llm /\ refined = ErrorMarker(llm.raise)) =>
            /\ retrieval'.embeds = 1
            /\ retrieval'.raised_at # "embed" =>
                  retrieval'.queries[1] = _build_metadata_filter_from_query(refined)
      ]_vars

\* the handler has run retrieval on the error marker of a failed refinement
C11_Witness ==
    /\ pc \in {"join", "responded"}
    /\ calls.refine = 1
    /\ refined = ErrorMarker(<<"timeout">>)
    /\ RetrievalRan
    /\ retrieval.raised_at = "none"
    /\ retrieval.snippets # <<>>

---------------------------------------------------------------------------
(* the join of the two branches in case_prep *)

BranchTerminated(at) == at \in {"done", "failed"}

\* C12 (as claimed): after a non-empty retrieval both branches are
\* dispatched together, and a response, success or error, exists only when
\* both branches have terminated, each having returned or failed.
C12_ResponseAfterBothBranches ==
    /\ (pc = "join") => (caseprep.pc # "none" /\ anatomy.pc # "none")
    /\ (pc = "responded" /\ RetrievalRan /\ retrieval.raised_at = "none"
          /\ retrieval.snippets # <<>>)
        => (BranchTerminated(caseprep.pc) /\ BranchTerminated(anatomy.pc))

---------------------------------------------------------------------------
(* ImportanceRanker.rank and the RankCache *)

IsPermutation(a, b) ==
    /\ Len(a) = Len(b)
    /\ \A x \in Range(a) \cup Range(b) :
         Cardinality({i \in DOMAIN a : a[i] = x}) = Cardinality({i \in DOMAIN b : b[i] = x})

RankReturned(c) == rankreq[c].pc = "done"

\* C13: every call of rank that has returned gave back a permutation of
\* its items (same length, same multiset), whatever score vector the model
\* returned or the cache held, shorter and longer ones included.
C13_RankIsPermutation ==
    \A c \in RankCallers :
        RankReturned(c) => IsPermutation(rankreq[c].out[1], rankreq[c].items)

\* a short vector was padded and the padded scores reordered the items
C13_Witness ==
    \E c \in RankCallers :
        /\ RankReturned(c)
        /\ rankreq[c].items = <<"a", "b">>
        /\ rankreq[c].scored = Some(<<0>>)
        /\ rankreq[c].out = Some(<<"b", "a">>)

ReadsComplete ==
    \A c \in RankCallers :
        rankreq[c].read # None =>
            \E d \in RankCallers \ {c} :
                /\ KeyOf(rankreq[d]) = KeyOf(rankreq[c])
                /\ RankReturned(d)
                /\ rankreq[d].scored = rankreq[c].read

\* every entry is the whole vector one caller stored, one entry per key
EntriesComplete ==
    /\ \A e \in rankcache :
         \E d \in RankCallers :
            /\ KeyOf(rankreq[d]) = e.key
            /\ rankreq[d].scored = Some(e.scores)
    /\ \A e, f \in rankcache : e.key = f.key => e = f

---------------------------------------------------------------------------
(* the shape of pimpQuestions *)

\* "Q: <question> A: <answer>" with both parts starting on a visible word
MatchesQA(entry) ==
    \E i \in 4..(Len(entry) - 3) :
        /\ entry[1] = "Q:" /\ entry[2] = " " /\ ~IsBlank(entry[3])
        /\ entry[i] = " " /\ entry[i + 1] = "A:" /\ entry[i + 2] = " "
        /\ ~IsBlank(entry[i + 3])

\* C20: every entry of pimpQuestions the case-prep branch returns, and so
\* every entry of a response built from it, reads "Q: <question> A:
\* <answer>" with a non-empty question and a non-empty answer, whatever
\* structured output the model returned.
C20_QuestionsMatchPattern ==
    /\ \A i \in DOMAIN caseprep.result.pimpQuestions :
          MatchesQA(caseprep.result.pimpQuestions[i])
    /\ (response # None /\ response[1].status = "ok") =>
          \A i \in DOMAIN response[1].pimpQuestions :
              MatchesQA(response[1].pimpQuestions[i])

\* a response carrying a question whose missing answer got the placeholder
C20_Witness ==
    /\ pc = "responded"
    /\ response # None /\ response[1].status = "ok"
    /\ \E i \in DOMAIN response[1].pimpQuestions :
          response[1].pimpQuestions[i] =
              <<"Q:", " ", "Blood", " ", "supply", " ", "A:", " ">> \o NoAnswer

---------------------------------------------------------------------------
(* the metadata filter builder *)

IsMapKey(t) == \E p \in specialty_map \cup region_map : p[1] = t

RECURSIVE JoinComma(_)
JoinComma(tokens) ==
    IF tokens = <<>> THEN <<>>
    ELSE IF Len(tokens) = 1 THEN tokens[1]
    ELSE tokens[1] \o <<",">> \o JoinComma(Tail(tokens))

\* the query with every token outside both maps taken out
RecognizedOnly(q) == JoinComma(SelectSeq(QueryTokens(q), IsMapKey))

FilterBuilt == unit.op = "filter"

\* C16: the filter is None exactly when no comma-separated, trimmed,
\* lowercased token of the query is a key of the specialty map or of the
\* region map, and tokens outside both maps leave the filter what the
\* recognized tokens alone give.
C16_FilterNoneIffNoKey ==
    FilterBuilt =>
        /\ unit.out = None <=>
              \A i \in DOMAIN QueryTokens(unit.in) : ~IsMapKey(QueryTokens(unit.in)[i])
        /\ unit.out = _build_metadata_filter_from_query(RecognizedOnly(unit.in))

\* an unrecognized token next to a capitalised specialty
C16_Witness ==
    /\ FilterBuilt
    /\ unit.in = <<"fx", ",", " ", "Trauma">>
    /\ \E i \in DOMAIN QueryTokens(unit.in) : ~IsMapKey(QueryTokens(unit.in)[i])
    /\ unit.out # None

\* C17 (as claimed): a second invocation with the same refined query
\* returns the filter the first one returned, the order of the values of
\* every $in list included.
C17_FilterDeterministic ==
    unit.op = "filter_again" => unit.out[1] = unit.out[2]

---------------------------------------------------------------------------
(* the score/dedupe step *)

\* the whitespace-delimited tokens of a text: str.split()
RECURSIVE WordsFrom(_, _, _)
WordsFrom(s, cur, acc) ==
    IF s = <<>> THEN (IF cur = <<>> THEN acc ELSE Append(acc, cur))
    ELSE IF IsSpaceChar(s[1].c)
         THEN WordsFrom(Tail(s), <<>>, IF cur = <<>> THEN acc ELSE Append(acc, cur))
         ELSE WordsFrom(Tail(s), Append(cur, s[1]), acc)

\* lowercase text, first 8 whitespace-delimited tokens, joined
NormalizedSignature(text) == TJoinBlank(Take(WordsFrom(TLower(text), <<>>, <<>>), SIG_TOKENS))

Scored == unit.op = "score"

\* a match the step may return: score at the threshold or above, and a text
PassesThreshold(m) == m.score >= MIN_SCORE /\ TextTruthy(m.metadata)

SignatureOf(m) == NormalizedSignature(m.metadata.text[1])

\* the returned snippets that carry the signature g
KeptWith(g) == {k \in DOMAIN unit.out : NormalizedSignature(unit.out[k].text) = g}

\* the first match of the list that passes the threshold with signature g
FirstWith(g) ==
    CHOOSE i \in DOMAIN unit.in :
        /\ PassesThreshold(unit.in[i]) /\ SignatureOf(unit.in[i]) = g
        /\ \A h \in 1..(i - 1) :
              ~(PassesThreshold(unit.in[h]) /\ SignatureOf(unit.in[h]) = g)

\* C18 (as claimed): of two matches that pass the score threshold and agree
\* on their first 8 lowercase whitespace-delimited tokens exactly one is
\* returned, the one that comes first in the store's order, and no two
\* returned snippets share a normalized signature.
C18_OnePerSignature ==
    Scored =>
        /\ \A i, j \in DOMAIN unit.in :
              (/\ i < j
               /\ PassesThreshold(unit.in[i]) /\ PassesThreshold(unit.in[j])
               /\ SignatureOf(unit.in[i]) = SignatureOf(unit.in[j]))
              => /\ Cardinality(KeptWith(SignatureOf(unit.in[i]))) = 1
                 /\ \A k \in KeptWith(SignatureOf(unit.in[i])) :
                       unit.out[k] = SnippetItem(unit.in[FirstWith(SignatureOf(unit.in[i]))])
        /\ \A k, l \in DOMAIN unit.out :
              k # l => NormalizedSignature(unit.out[k].text)
                         # NormalizedSignature(unit.out[l].text)

\* C19 (as claimed): every snippet returned has a score of at least
\* MIN_SCORE and a non-empty text.
C19_ReturnedSnippetsHaveText ==
    Scored =>
        \A k \in DOMAIN unit.out :
            unit.out[k].score >= MIN_SCORE /\ unit.out[k].text # <<>>

---------------------------------------------------------------------------
(* the anatomy branch: select_approaches and run_pipeline *)

AnatomyCallsAfterSelection == anatomy.pc \in {"quiz", "high_yield"}

\* C21: the quiz call and the high-yield call are issued only after
\* approach selection has returned with at least one valid ID (the quiz
\* call first); with no valid ID run_pipeline returns empty quiz questions
\* and empty structures having issued the selection call only.
C21_AnatomyShortCircuit ==
    /\ [](/\ AnatomyCallsAfterSelection =>
               (SelectedIds(anatomy.sel) # <<>> /\ calls.anatomy >= 1)
          /\ (anatomy.pc = "done" /\ SelectedIds(anatomy.sel) = <<>>) =>
               /\ calls.anatomy = 1
               /\ anatomy.quiz = EmptyQuiz
               /\ anatomy.high_yield = EmptyHighYield)
    /\ [][calls'.anatomy > calls.anatomy =>
            \/ anatomy.pc = "select" /\ calls.anatomy = 0
            \/ /\ AnatomyCallsAfterSelection
               /\ SelectedIds(anatomy.sel) # <<>>
               /\ anatomy.pc = "high_yield" => calls.anatomy = 2]_vars

\* run_pipeline returned after the model picked only IDs outside the catalog
C21_Witness ==
    /\ anatomy.pc = "done"
    /\ SelectedIds(anatomy.sel) = <<>>
    /\ anatomy.sel.notes = "No valid approach IDs returned."
    /\ calls.anatomy = 1

\* C30: every ID in the selection select_approaches returns, and every ID
\* handed to quiz generation and high-yield extraction, is a catalog ID;
\* an empty selection carries the fixed note.
C30_SelectedIdsInCatalog ==
    /\ Range(SelectedIds(anatomy.sel)) \subseteq CatalogIds
    /\ Range(anatomy.quiz.questions) \subseteq CatalogIds
    /\ Range(anatomy.high_yield.structures) \subseteq CatalogIds
    /\ (anatomy.pc = "done" /\ anatomy.sel.selected = <<>>) =>
          anatomy.sel.notes = "No valid approach IDs returned."

\* the model returned an unknown ID next to a catalog ID: only the latter
\* reached the two later stages
C30_Witness ==
    /\ anatomy.pc = "done"
    /\ SelectedIds(anatomy.sel) = <<"ap2">>
    /\ anatomy.quiz.questions = <<"ap2">>
    /\ anatomy.high_yield.structures = <<"ap2">>

---------------------------------------------------------------------------
(* the shape of the metadata filter *)

\* c is the clause of the claim for the non-empty set S of values of field
IsClauseFor(c, field, S) ==
    /\ DOMAIN c = {"field", "op", "vals"}
    /\ c.field = field
    /\ IF Cardinality(S) = 1
       THEN c.op = "$eq" /\ c.vals = <<CHOOSE v \in S : TRUE>>
       ELSE c.op = "$in" /\ Len(c.vals) = Cardinality(S) /\ Range(c.vals) = S

\* C22: the filter holds one clause per non-empty accumulated set, $eq with
\* the single value of a singleton and $in with all values otherwise; with
\* both sets non-empty it is $and of the specialty clause then the region
\* clause, with one it is that clause alone, with none it is None.
C22_FilterShape ==
    FilterBuilt =>
        LET specialties == SelectedSpecialties(QueryTokens(unit.in))
            regions     == SelectedRegions(QueryTokens(unit.in))
        IN  /\ (specialties = {} /\ regions = {}) => unit.out = None
            /\ (specialties # {} /\ regions = {}) =>
                  (unit.out # None /\ IsClauseFor(unit.out[1], "specialty", specialties))
            /\ (specialties = {} /\ regions # {}) =>
                  (unit.out # None /\ IsClauseFor(unit.out[1], "region", regions))
            /\ (specialties # {} /\ regions # {}) =>
                  /\ unit.out # None
                  /\ DOMAIN unit.out[1] = {"and"}
                  /\ Len(unit.out[1].and) = 2
                  /\ IsClauseFor(unit.out[1].and[1], "specialty", specialties)
                  /\ IsClauseFor(unit.out[1].and[2], "region", regions)

\* one specialty and one region token: $and of an $eq and an $in clause
C22_Witness ==
    /\ FilterBuilt
    /\ unit.in = <<"hip", ",", "Trauma">>
    /\ unit.out # None
    /\ DOMAIN unit.out[1] = {"and"}
    /\ unit.out[1].and[1].op = "$eq"
    /\ unit.out[1].and[2].op = "$in"

---------------------------------------------------------------------------
(* order of the retrieved snippets *)

\* sub can be read off full from left to right, skipping entries
RECURSIVE IsSubsequence(_, _)
IsSubsequence(sub, full) ==
    IF sub = <<>> THEN TRUE
    ELSE IF full = <<>> THEN FALSE
    ELSE IF sub[1] = full[1] THEN IsSubsequence(Tail(sub), Tail(full))
    ELSE IsSubsequence(sub, Tail(full))

\* C23: the snippets the score/dedupe step returns are, in order, the
\* snippets of some of the matches in the order the store returned them.
C23_SnippetsKeepStoreOrder ==
    Scored =>
        LET with_text == SelectSeq(unit.in, LAMBDA m : m.metadata.text # None)
        IN  IsSubsequence(unit.out, [i \in DOMAIN with_text |-> SnippetItem(with_text[i])])

\* two matches with different scores were both returned
C23_Witness ==
    /\ Scored
    /\ Len(unit.out) = 2
    /\ unit.out[1].score > unit.out[2].score

---------------------------------------------------------------------------
(* _prepare_snippets and the character budget *)

Prepared == unit.op = "prepare"

\* the cleaned snippets of at least 10 characters, each cut to the limit
EligibleCleaned(snips) ==
    LET noiseless == [i \in DOMAIN snips |-> _strip_noise(SnippetString(snips[i]))]
        long      == SelectSeq(noiseless, LAMBDA t : TLen(t) >= MIN_SNIP_LEN)
    IN  [i \in DOMAIN long |-> TTake(long[i], PER_SNIP_LIMIT)]

\* the total of (length + 1) over the first k strings
RECURSIVE Charged(_, _)
Charged(strings, k) ==
    IF k = 0 THEN 0 ELSE Charged(strings, k - 1) + TLen(strings[k]) + 1

\* C24: the result is the longest prefix of the eligible cleaned snippets in
\* which every snippet but the first keeps the running total of (length + 1)
\* within the budget; a first eligible snippet is always admitted; with a
\* budget of at least PER_SNIP_LIMIT + 1 the total never exceeds the budget.
C24_PreparedIsBudgetedPrefix ==
    Prepared =>
        LET eligible == EligibleCleaned(unit.in.snips)
            budget   == unit.in.char_budget
            n        == Len(unit.out)
        IN  /\ n <= Len(eligible)
            /\ unit.out = SubSeq(eligible, 1, n)
            /\ eligible # <<>> => n >= 1
            /\ \A k \in 2..n : Charged(eligible, k) <= budget
            /\ (n >= 1 /\ n < Len(eligible)) => Charged(eligible, n + 1) > budget
            /\ budget >= PER_SNIP_LIMIT + 1 => Charged(unit.out, n) <= budget

\* the budget ran out at a long snippet and the short one behind it was
\* left out as well
C24_Witness ==
    /\ Prepared
    /\ unit.in.char_budget = 26
    /\ Len(EligibleCleaned(unit.in.snips)) = 3
    /\ Len(unit.out) = 1
    /\ TLen(EligibleCleaned(unit.in.snips)[2]) = PER_SNIP_LIMIT
    /\ TLen(EligibleCleaned(unit.in.snips)[3]) = 12


---------------------------------------------------------------------------
(* The two lists of the reformatter *)

\* the entries of seq that no earlier entry shares a key with, in order
\* (keys[i] is the key of seq[i])
RECURSIVE FirstOfEachKey(_, _, _)
FirstOfEachKey(seq, keys, n) ==
    IF n = 0 THEN <<>>
    ELSE IF \E j \in 1..(n - 1) : keys[j] = keys[n]
         THEN FirstOfEachKey(seq, keys, n - 1)
         ELSE Append(FirstOfEachKey(seq, keys, n - 1), seq[n])

\* no two entries of seq have the same key under the key list keys
DistinctKeys(keys) == \A i, j \in DOMAIN keys : i # j => keys[i] # keys[j]

\* the "Q: ... A: ..." strings of the usable pairs of a reply, in reply order
RECURSIVE FormattedPairs(_)
FormattedPairs(raw_qs) ==
    IF raw_qs = <<>> THEN <<>>
    ELSE IF raw_qs[1] = None \/ QStrip(raw_qs[1][1].question) = <<>>
         THEN FormattedPairs(Tail(raw_qs))
         ELSE <<_format_qa(raw_qs[1][1].question, raw_qs[1][1].answer)>>
              \o FormattedPairs(Tail(raw_qs))

\* lowercased, whitespace-collapsed
NormalizedKeys(seq) == [i \in DOMAIN seq |-> QLower(_normalize_space(seq[i]))]

\* C25: the question list holds no two entries with the same lowercased,
\* whitespace-collapsed formatted string; of the pairs of the reply that
\* share such a key only the first is kept, and the kept entries are in
\* reply order.
C25_QuestionsFirstOfEachKey ==
    unit.op = "questions" =>
        LET formatted == FormattedPairs(unit.in)
        IN  /\ DistinctKeys(NormalizedKeys(unit.out))
            /\ unit.out = FirstOfEachKey(formatted, NormalizedKeys(formatted),
                                         Len(formatted))

\* three usable pairs, the third differing from the first in case and
\* spacing only: the first and the second are kept
C25_Witness ==
    /\ unit.op = "questions"
    /\ Len(FormattedPairs(unit.in)) = 3
    /\ FormattedPairs(unit.in)[1] # FormattedPairs(unit.in)[3]
    /\ unit.out = Take(FormattedPairs(unit.in), 2)
    /\ Len(unit.out) = 2

\* the whitespace-normalized strings of a reply's facts, in reply order,
\* non-strings and blank strings left out
RECURSIVE NormalizedFacts(_)
NormalizedFacts(raw_facts) ==
    IF raw_facts = <<>> THEN <<>>
    ELSE IF raw_facts[1] = None \/ _normalize_space(raw_facts[1][1]) = <<>>
         THEN NormalizedFacts(Tail(raw_facts))
         ELSE <<_normalize_space(raw_facts[1][1])>> \o NormalizedFacts(Tail(raw_facts))

\* C26: the fact list has at most MAX_FACTS_OUT entries, no two of them
\* equal after whitespace normalization and lowercasing, none empty, and
\* it is the first MAX_FACTS_OUT distinct facts of the reply in reply order.
C26_FactsCappedDistinct ==
    unit.op = "facts" =>
        LET facts == NormalizedFacts(unit.in)
        IN  /\ Len(unit.out) <= MAX_FACTS_OUT
            /\ DistinctKeys(NormalizedKeys(unit.out))
            /\ \A i \in DOMAIN unit.out : unit.out[i] # <<>>
            /\ unit.out = Take(FirstOfEachKey(facts, NormalizedKeys(facts), Len(facts)),
                               MAX_FACTS_OUT)

\* a reply with a repeated fact and more than MAX_FACTS_OUT distinct ones
C26_Witness ==
    /\ unit.op = "facts"
    /\ ~DistinctKeys(NormalizedKeys(NormalizedFacts(unit.in)))
    /\ Len(FirstOfEachKey(NormalizedFacts(unit.in),
                          NormalizedKeys(NormalizedFacts(unit.in)),
                          Len(NormalizedFacts(unit.in)))) > MAX_FACTS_OUT
    /\ Len(unit.out) = MAX_FACTS_OUT

---------------------------------------------------------------------------
(* The question mark *)

\* the marks that close a sentence
TerminalPunctuation == {"?", ".", "!"}

\* C27: a "?" is appended only to a question that starts with a lead word
\* and does not end in a terminal punctuation mark; every other question
\* comes back whitespace-normalized and otherwise unchanged; normalizing
\* the result again changes nothing.
C27_QuestionMarkOnlyWhenUnpunctuated ==
    unit.op = "question_mark" =>
        LET n == _normalize_space(unit.in)
        IN  /\ unit.out = IF /\ StartsWithLeadWord(n)
                             /\ n[Len(n)] \notin TerminalPunctuation
                          THEN Append(n, "?")
                          ELSE n
            /\ _ensure_question_mark(unit.out) = unit.out


---------------------------------------------------------------------------
(* The relevance filter returns a sub-list *)

\* the entries of seq at the positions up to n where mask is true
RECURSIVE AtTruePositions(_, _, _)
AtTruePositions(seq, mask, n) ==
    IF n = 0 THEN <<>>
    ELSE IF mask[n] THEN Append(AtTruePositions(seq, mask, n - 1), seq[n])
    ELSE AtTruePositions(seq, mask, n - 1)

\* C28: what the relevance filter returns can be read off its input list
\* from left to right (nothing added, rewritten, repeated or reordered);
\* when the returned mask is as long as the input and keeps at least one
\* snippet, the result is exactly the snippets at the true positions.
C28_FilterReturnsSublist ==
    caseprep.pc = "filtered" =>
        /\ IsSubsequence(caseprep.kept, caseprep.prepped)
        /\ ( /\ MaskReturned
             /\ Len(caseprep.llm[1].keepMask[1]) = Len(caseprep.prepped)
             /\ \E i \in DOMAIN caseprep.llm[1].keepMask[1] : caseprep.llm[1].keepMask[1][i] )
           => caseprep.kept = AtTruePositions(caseprep.prepped, caseprep.llm[1].keepMask[1],
                                              Len(caseprep.prepped))

\* two different snippets, a mask that keeps the second only
C28_Witness ==
    /\ MaskReturned
    /\ Len(caseprep.prepped) = 2
    /\ caseprep.prepped[1] # caseprep.prepped[2]
    /\ caseprep.llm[1].keepMask[1] = <<FALSE, TRUE>>
    /\ caseprep.kept = <<caseprep.prepped[2]>>


---------------------------------------------------------------------------
(* The snippet list the two branches share *)

===========================================================================
